---- MODULE Spec2Model ----
(***************************************************************************)
(* A model of the deterministic core of repo-intelligence:                 *)
(*   tools/dependency_mapper.py  build_dependency_graph,                   *)
(*                               find_circular_dependencies,               *)
(*                               find_high_coupling_modules,               *)
(*                               analyse_dependencies                      *)
(*   analysis/best_practices.py  the rule registry and evaluate_rules      *)
(*   agents/gap_analyzer.py      _compute_maturity_score                   *)
(*                                                                         *)
(* A Python str is a sequence of tokens: "." and "/" are tokens of their   *)
(* own, every other token is a run of characters holding neither, so that  *)
(* "a.py" is <<"a", ".", "py">> and splitting a name at dots or slashes is *)
(* computed, not assumed.  A Python dict is the sequence of its items in   *)
(* insertion order.                                                        *)
(***************************************************************************)
EXTENDS Integers, Sequences, FiniteSets, TLC

VARIABLES
    call,        \* the public function that was called
    pc,          \* the position of the running call
    graph,       \* Dict[str, List[str]]: items [key, deps] in insertion order
    visited,     \* find_circular_dependencies: visited
    rec_stack,   \* find_circular_dependencies: rec_stack
    cycles,      \* find_circular_dependencies: cycles
    path,        \* find_circular_dependencies: path
    frames,      \* the activations of _dfs: [node, i], i the next neighbour
    root,        \* the position of `for node in graph` (line 191)
    entered,     \* the nodes _dfs was called with, in call order
    stack_limit, \* the nested calls of _dfs the interpreter allows the call
    run,         \* 1 in a call, 2 when the caller repeats it on the same inputs
    first,       \* the inputs and the result of the call that is repeated
    tree,        \* the files under repo_path, in os.walk order
    max_files,   \* settings.max_files
    source_files,      \* build_dependency_graph: source_files
    internal_modules,  \* build_dependency_graph: internal_modules
    file_count,  \* build_dependency_graph: file_count
    root_is_dir, \* repo_path names an existing directory
    read_bytes,  \* the most bytes one fh.read() of an extractor has taken in
    threshold,   \* find_high_coupling_modules: threshold
    in_degree,   \* find_high_coupling_modules: in_degree, items [key, count]
    src,         \* the position of `for deps in graph.values()` (line 206)
    high_coupling,     \* the list find_high_coupling_modules returns
    tech_stack,  \* evaluate_rules: tech_stack
    facts,       \* what the checks find under repo_path
    rules,       \* evaluate_rules: rules
    findings,    \* evaluate_rules: findings
    total_weight,      \* _compute_maturity_score: total_weight
    earned_weight,     \* _compute_maturity_score: earned_weight
    score        \* the value _compute_maturity_score returns

dfsVars == <<visited, rec_stack, cycles, path, frames, root, entered, stack_limit>>

buildVars == <<tree, max_files, source_files, internal_modules, file_count,
              root_is_dir, read_bytes>>

couplingVars == <<threshold, in_degree, src, high_coupling>>

ruleVars == <<tech_stack, facts, rules, findings>>

scoreVars == <<total_weight, earned_weight, score>>

vars == <<call, run, first, pc, graph, dfsVars, buildVars, couplingVars, ruleVars, scoreVars>>

---------------------------------------------------------------------------
(* Bounds of the model.                                                    *)

\* the longest dependency list of a graph handed to the analysis functions
MaxDeps == 2
\* the most list entries, over all keys, of such a graph
MaxEdges == 4
\* the most files of a scanned tree
MaxFiles == 2
\* the most import statements, over all files, of a scanned tree
MaxImports == 2
\* the largest threshold handed to find_high_coupling_modules
MaxThreshold == 3
\* the most facts (files present, patterns matched) of an assessed repository
MaxFacts == 3
\* the longest rule list handed to evaluate_rules
MaxRules == 2

\* the most Findings in a list handed to _compute_maturity_score
MaxFindings == 3

\* the most tokens of a stack description handed to get_rules_for_stack
MaxTokens == 3

---------------------------------------------------------------------------
(* Sequences and dicts.                                                    *)

Range(s) == {s[i] : i \in 1..Len(s)}

SeqsUpTo(S, n) == UNION {[1..k -> S] : k \in 0..n}

\* the sequences over S, of any length, that hold no element twice
Injective(S) ==
    {s \in SeqsUpTo(S, Cardinality(S)) : \A i, j \in 1..Len(s) : s[i] = s[j] => i = j}

\* list.index(x): the position of the first occurrence
Index(s, x) == CHOOSE i \in 1..Len(s) : s[i] = x /\ \A j \in 1..(i - 1) : s[j] # x

RECURSIVE SumLen(_)
SumLen(ss) == IF ss = <<>> THEN 0 ELSE Len(Head(ss)) + SumLen(Tail(ss))

Keys(d) == [i \in 1..Len(d) |-> d[i].key]

HasKey(d, k) == \E i \in 1..Len(d) : d[i].key = k

\* graph.get(node, [])
Get(d, k) == IF HasKey(d, k) THEN d[CHOOSE i \in 1..Len(d) : d[i].key = k].deps ELSE <<>>

---------------------------------------------------------------------------
(* Strings and paths.                                                      *)

Dot == "."

Sep == "/"

\* s.split(sep)[0]: the part before the first separator
SplitFirst(s, sep) ==
    IF sep \in Range(s) THEN SubSeq(s, 1, Index(s, sep) - 1) ELSE s

\* s.replace(old, new), for single tokens
Replace(s, old, new) == [i \in 1..Len(s) |-> IF s[i] = old THEN new ELSE s[i]]

\* str.lower(), token by token
Lower(s) ==
    [i \in 1..Len(s) |->
        CASE s[i] = "PY" -> "py"
          [] s[i] = "JS" -> "js"
          [] s[i] = "FastAPI" -> "fastapi"
          [] s[i] = "FASTAPI" -> "fastapi"
          [] s[i] = "Express" -> "express"
          [] s[i] = "EXPRESS" -> "express"
          [] s[i] = "Node" -> "node"
          [] s[i] = "NODE" -> "node"
          [] s[i] = "Python" -> "python"
          [] OTHER -> s[i]]

\* the position of the last dot of a file name that follows a token other
\* than a dot (os.path.splitext ignores leading dots), 0 when there is none
ExtDot(name) ==
    LET ds == {i \in 1..Len(name) :
                  name[i] = Dot /\ \E j \in 1..(i - 1) : name[j] # Dot}
    IN  IF ds = {} THEN 0 ELSE CHOOSE i \in ds : \A j \in ds : j <= i

\* os.path.splitext(name)[0]
SplitExtRoot(name) ==
    IF ExtDot(name) = 0 THEN name ELSE SubSeq(name, 1, ExtDot(name) - 1)

\* os.path.splitext(name)[1]
SplitExtExt(name) ==
    IF ExtDot(name) = 0 THEN <<>> ELSE SubSeq(name, ExtDot(name), Len(name))

\* os.path.join over the segments of a relative directory; <<>> is the root
RECURSIVE JoinPath(_)
JoinPath(segs) ==
    IF segs = <<>> THEN <<>>
    ELSE IF Len(segs) = 1 THEN segs[1]
    ELSE segs[1] \o <<Sep>> \o JoinPath(Tail(segs))

\* a slip: the path without the file's extension
RelPathBug(f) == JoinPath(Append(f.dir, SplitExtRoot(f.name)))

\* os.path.relpath(os.path.join(root, fname), repo_path)
RelPath(f) == JoinPath(Append(f.dir, f.name))

\* os.path.relpath(root, repo_path): "." for the root itself
RelDir(f) == IF f.dir = <<>> THEN <<Dot>> ELSE JoinPath(f.dir)

---------------------------------------------------------------------------
(* find_circular_dependencies (dependency_mapper.py 162-195).              *)

\* sys.getrecursionlimit(), as the interpreter sets it
RecursionLimit == 1000

\* the node names of the graphs handed to the function directly
Nodes == {<<"a">>, <<"b">>, <<"c">>}

\* the dict with keys ks, in this order, and the lists ds
MkGraph(ks, ds) == [i \in 1..Len(ks) |-> [key |-> ks[i], deps |-> ds[i]]]

\* the graphs a caller may hand over: any keys in any order, any lists
IsGraphInput(g) ==
    \E ks \in Injective(Nodes) :
        \E ds \in [1..Len(ks) -> SeqsUpTo(Nodes, MaxDeps)] :
            SumLen(ds) <= MaxEdges /\ g = MkGraph(ks, ds)

\* a slip: the test looks at the recursion stack
UnvisitedBug(n) == n \notin rec_stack

\* line 181: `if neighbour not in visited`
Unvisited(n) == n \notin visited

\* line 183: `elif neighbour in rec_stack`
OnStack(n) == n \in rec_stack

\* a slip: the slice starts after the neighbour
CycleOfBug(p, n) == SubSeq(p, Index(p, n) + 1, Len(p)) \o <<n>>

\* lines 184-185: path[path.index(neighbour):] + [neighbour]
CycleOf(p, n) == SubSeq(p, Index(p, n), Len(p)) \o <<n>>

\* a slip: the node is never put on the recursion stack
EnterBug(node) ==
    /\ visited' = visited \cup {node}
    /\ rec_stack' = rec_stack
    /\ path' = Append(path, node)
    /\ entered' = Append(entered, node)

\* lines 176-178: the head of _dfs(node)
Enter(node) ==
    /\ visited' = visited \cup {node}
    /\ rec_stack' = rec_stack \cup {node}
    /\ path' = Append(path, node)
    /\ entered' = Append(entered, node)

Top == frames[Len(frames)]

TopDeps == Get(graph, Top.node)

Advance == [frames EXCEPT ![Len(frames)].i = @ + 1]

InLoop == pc = "cycles" /\ frames # <<>> /\ Top.i <= Len(TopDeps)

\* a slip: only the first key is taken as a root
RootPendingBug == root <= Len(graph) /\ root = 1

\* line 191: `for node in graph` has a key left
RootPending == root <= Len(graph)

\* lines 191-193: the next key is unvisited, _dfs(node) is called
DfsRootCall ==
    /\ pc = "cycles" /\ frames = <<>> /\ RootPending
    /\ graph[root].key \notin visited
    /\ Enter(graph[root].key)
    /\ frames' = <<[node |-> graph[root].key, i |-> 1]>>
    /\ root' = root + 1
    /\ UNCHANGED <<call, run, first, pc, graph, cycles, stack_limit,
                   buildVars, couplingVars, ruleVars, scoreVars>>

\* lines 191-192: the next key was visited from an earlier root
DfsRootSkip ==
    /\ pc = "cycles" /\ frames = <<>> /\ RootPending
    /\ graph[root].key \in visited
    /\ root' = root + 1
    /\ UNCHANGED <<call, run, first, pc, graph, visited, rec_stack, cycles, path, frames, entered, stack_limit,
                   buildVars, couplingVars, ruleVars, scoreVars>>

\* lines 180-182: an unvisited neighbour, the recursive call
DfsDescend ==
    /\ InLoop
    /\ Unvisited(TopDeps[Top.i])
    /\ Len(frames) < stack_limit
    /\ Enter(TopDeps[Top.i])
    /\ frames' = Append(Advance, [node |-> TopDeps[Top.i], i |-> 1])
    /\ UNCHANGED <<call, run, first, pc, graph, cycles, root, stack_limit,
                   buildVars, couplingVars, ruleVars, scoreVars>>

\* line 182: the recursive call goes past the interpreter's recursion limit,
\* RecursionError leaves _dfs and find_circular_dependencies
DfsOverflow ==
    /\ InLoop
    /\ Unvisited(TopDeps[Top.i])
    /\ Len(frames) >= stack_limit
    /\ pc' = "raised"
    /\ UNCHANGED <<call, run, first, graph, dfsVars, buildVars, couplingVars, ruleVars, scoreVars>>

\* lines 183-186: a neighbour on the recursion stack closes a cycle
DfsRecord ==
    /\ InLoop
    /\ ~Unvisited(TopDeps[Top.i])
    /\ OnStack(TopDeps[Top.i])
    /\ cycles' = Append(cycles, CycleOf(path, TopDeps[Top.i]))
    /\ frames' = Advance
    /\ UNCHANGED <<call, run, first, pc, graph, visited, rec_stack, path, root, entered, stack_limit,
                   buildVars, couplingVars, ruleVars, scoreVars>>

\* lines 180-183: a neighbour explored before and off the stack
DfsPass ==
    /\ InLoop
    /\ ~Unvisited(TopDeps[Top.i])
    /\ ~OnStack(TopDeps[Top.i])
    /\ frames' = Advance
    /\ UNCHANGED <<call, run, first, pc, graph, visited, rec_stack, cycles, path, root, entered, stack_limit,
                   buildVars, couplingVars, ruleVars, scoreVars>>

\* _dfs returning without line 189, `rec_stack.discard(node)`
DfsReturnBug ==
    /\ pc = "cycles" /\ frames # <<>> /\ Top.i > Len(TopDeps)
    /\ path' = SubSeq(path, 1, Len(path) - 1)
    /\ frames' = SubSeq(frames, 1, Len(frames) - 1)
    /\ UNCHANGED <<call, run, first, pc, graph, visited, rec_stack, cycles, root, entered,
                   stack_limit, buildVars, couplingVars, ruleVars, scoreVars>>

\* lines 188-189: the neighbours are exhausted, _dfs returns
DfsReturn ==
    /\ pc = "cycles" /\ frames # <<>> /\ Top.i > Len(TopDeps)
    /\ path' = SubSeq(path, 1, Len(path) - 1)
    /\ rec_stack' = rec_stack \ {Top.node}
    /\ frames' = SubSeq(frames, 1, Len(frames) - 1)
    /\ UNCHANGED <<call, run, first, pc, graph, visited, cycles, root, entered, stack_limit,
                   buildVars, couplingVars, ruleVars, scoreVars>>

\* line 195: `return cycles`
DfsFinish ==
    /\ pc = "cycles" /\ frames = <<>> /\ ~RootPending
    /\ pc' = IF call = "analyse_dependencies" THEN "coupling" ELSE "done"
    /\ UNCHANGED <<call, run, first, graph, visited, rec_stack, cycles, path, frames, root, entered, stack_limit,
                   buildVars, couplingVars, ruleVars, scoreVars>>

Dfs == DfsRootCall \/ DfsRootSkip \/ DfsDescend \/ DfsRecord \/ DfsPass \/ DfsReturn

\* lines 170-173: the locals of a fresh call
DfsLocals ==
    /\ visited = {} /\ rec_stack = {} /\ cycles = <<>> /\ path = <<>>
    /\ frames = <<>> /\ root = 1 /\ entered = <<>>

---------------------------------------------------------------------------
(* find_high_coupling_modules (dependency_mapper.py 198-214).              *)

\* line 200: threshold: int = 5
DefaultThreshold == 5

\* line 208: in_degree[dep] += 1
Increment(d, dep) ==
    IF \E i \in 1..Len(d) : d[i].key = dep
    THEN [i \in 1..Len(d) |-> IF d[i].key = dep THEN [d[i] EXCEPT !.count = @ + 1] ELSE d[i]]
    ELSE Append(d, [key |-> dep, count |-> 1])

\* lines 207-208: `for dep in deps`
RECURSIVE CountDeps(_, _)
CountDeps(d, deps) ==
    IF deps = <<>> THEN d ELSE CountDeps(Increment(d, Head(deps)), Tail(deps))

\* line 211: `if count >= threshold`
Qualifies(count, t) == count >= t

\* sorted(..., reverse=True) is stable: an entry goes after the entries
\* whose count is not smaller
InsertDesc(acc, x) ==
    LET n == Cardinality({i \in 1..Len(acc) : acc[i].count >= x.count})
    IN  SubSeq(acc, 1, n) \o <<x>> \o SubSeq(acc, n + 1, Len(acc))

RECURSIVE SortDesc(_, _)
SortDesc(acc, rest) ==
    IF rest = <<>> THEN acc ELSE SortDesc(InsertDesc(acc, Head(rest)), Tail(rest))

\* lines 210-214: the qualifying modules, by count descending
HighCoupling(d, t) ==
    LET kept == SortDesc(<<>>, SelectSeq(d, LAMBDA e : Qualifies(e.count, t)))
    IN  [i \in 1..Len(kept) |-> kept[i].key]

\* lines 206-208: the dependency list of one more key is counted
CountSource ==
    /\ pc = "coupling"
    /\ src <= Len(graph)
    /\ in_degree' = CountDeps(in_degree, graph[src].deps)
    /\ src' = src + 1
    /\ UNCHANGED <<call, run, first, pc, graph, dfsVars, buildVars, threshold, high_coupling, ruleVars, scoreVars>>

\* lines 210-214: every list is counted, the sorted list is returned
SortReturn ==
    /\ pc = "coupling"
    /\ src > Len(graph)
    /\ high_coupling' = HighCoupling(in_degree, threshold)
    /\ pc' = "done"
    /\ UNCHANGED <<call, run, first, graph, dfsVars, buildVars, threshold, in_degree, src, ruleVars, scoreVars>>

Coupling == CountSource \/ SortReturn

\* line 205: the locals of a fresh call
CouplingLocals == in_degree = <<>> /\ src = 1 /\ high_coupling = <<>>

\* find_high_coupling_modules has returned `high_coupling`
CouplingReturned ==
    pc = "done" /\ call \in {"find_high_coupling_modules", "analyse_dependencies"}

---------------------------------------------------------------------------
(* build_dependency_graph (dependency_mapper.py 28-155).                   *)

\* settings.py 18: ScanSettings.max_files
DefaultMaxFiles == 2000

\* settings.py 19: ScanSettings.max_file_size_bytes
MaxFileSizeBytes == 500000

\* settings.py 46-68: ScanSettings.skip_dirs
SkipDirs ==
    {<<Dot, "git">>, <<Dot, "svn">>, <<"__pycache__">>, <<"node_modules">>,
     <<Dot, "venv">>, <<"venv">>, <<"env">>, <<Dot, "tox">>, <<Dot, "mypy_cache">>,
     <<Dot, "pytest_cache">>, <<"dist">>, <<"build">>, <<Dot, "eggs">>,
     <<Dot, "idea">>, <<Dot, "vscode">>, <<Dot, "zencoder">>, <<Dot, "zenflow">>}

\* lines 85-93: _EXTRACTORS, by (lower-cased) extension
ExtractorOf(ext) ==
    CASE ext = <<Dot, "py">> -> "python"
      [] ext \in {<<Dot, "js">>, <<Dot, "ts">>, <<Dot, "jsx">>, <<Dot, "tsx">>} -> "js"
      [] ext \in {<<Dot, "java">>, <<Dot, "kt">>} -> "java"
      [] OTHER -> "none"

\* the files a scanned tree may hold, in the order os.walk yields them
\* (top-down: a directory's files before its subdirectories)
Catalogue ==
    << [dir |-> <<>>, name |-> <<"a", Dot, "py">>],
       [dir |-> <<>>, name |-> <<"b", Dot, "py">>],
       [dir |-> <<>>, name |-> <<"a", Dot, "js", Dot, "js">>],
       [dir |-> <<>>, name |-> <<"a", Dot, "js">>],
       [dir |-> <<>>, name |-> <<"README", Dot, "md">>],
       [dir |-> << <<"node_modules">> >>, name |-> <<"b", Dot, "js">>],
       [dir |-> << <<"pkg">> >>, name |-> <<"M", Dot, "java">>],
       [dir |-> << <<"pkg">>, <<"sub">> >>, name |-> <<"s", Dot, "PY">>] >>

\* the module named by an import statement of a file, by language: the dotted
\* name of a Python import (<<>>: `from . import x`, no module), the string
\* of a JavaScript import/require, the dotted name of a Java import
RefsOf(kind) ==
    CASE kind = "python" ->
            {<<"a">>, <<"b">>, <<"pkg", Dot, "m">>, <<"sub">>, <<"os">>, <<>>}
      [] kind = "js" ->
            {<<"a", Dot, "js">>, <<"a", Sep, "x">>, <<Dot, Sep, "a">>}
      [] kind = "java" ->
            {<<"pkg", Dot, "sub", Dot, "X">>, <<"java", Dot, "util", Dot, "List">>}
      [] OTHER -> {}

KindOf(name) == ExtractorOf(Lower(SplitExtExt(name)))

\* the size in bytes of a catalogued file: M.java is a large one
SizeOf(f) == IF f.name = <<"M", Dot, "java">> THEN 600000 ELSE 100

\* what a file may hold: import statements in the order the extractor meets
\* them; text the extractor cannot read (OSError) or parse (SyntaxError);
\* Python text nested so deep that ast.parse gives up with MemoryError or
\* RecursionError
ContentsOf(name, n) ==
    {[state |-> "ok", refs |-> r] : r \in SeqsUpTo(RefsOf(KindOf(name)), n)}
        \cup (IF KindOf(name) = "none" THEN {} ELSE {[state |-> "unparsable", refs |-> <<>>]})
        \cup (IF KindOf(name) = "python" THEN {[state |-> "too_deep", refs |-> <<>>]} ELSE {})

\* the strictly increasing sequences of at most n positions of the catalogue
Picks(n) ==
    {s \in SeqsUpTo(1..Len(Catalogue), n) : \A j \in 1..(Len(s) - 1) : s[j] < s[j + 1]}

RECURSIVE SumOf(_)
SumOf(ns) == IF ns = <<>> THEN 0 ELSE Head(ns) + SumOf(Tail(ns))

\* the trees that hold the catalogued files idx, the j-th of them with
\* lens[j] import statements
RECURSIVE TreesOf(_, _)
TreesOf(idx, lens) ==
    IF idx = <<>> THEN {<<>>}
    ELSE {<<[dir |-> Catalogue[Head(idx)].dir, name |-> Catalogue[Head(idx)].name,
             state |-> c.state, refs |-> c.refs]>> \o t
             : c \in {x \in ContentsOf(Catalogue[Head(idx)].name, Head(lens)) :
                          Len(x.refs) = Head(lens)},
               t \in TreesOf(Tail(idx), Tail(lens))}

\* the trees of at most nf catalogued files that hold at most ni import
\* statements in all
IsTree(t, nf, ni) ==
    \E idx \in Picks(nf) :
        \E lens \in [1..Len(idx) -> 0..ni] :
            SumOf(lens) <= ni /\ t \in TreesOf(idx, lens)

\* lines 28-46: _extract_python_imports
ExtractPython(f) ==
    IF f.state # "ok" THEN <<>>
    ELSE LET named == SelectSeq(f.refs, LAMBDA r : r # <<>>)
         IN  [i \in 1..Len(named) |-> SplitFirst(named[i], Dot)]

\* lines 55-68: _extract_js_imports
ExtractJs(f) ==
    IF f.state # "ok" THEN <<>>
    ELSE [i \in 1..Len(f.refs) |-> SplitFirst(f.refs[i], Sep)]

\* lines 74-82: _extract_java_imports
ExtractJava(f) ==
    IF f.state # "ok" THEN <<>>
    ELSE [i \in 1..Len(f.refs) |-> SplitFirst(f.refs[i], Dot)]

\* lines 33-34: ast.parse raises an error that is neither SyntaxError nor
\* OSError, and the extractor lets it through
ExtractRaises(f, ext) == ExtractorOf(ext) = "python" /\ f.state = "too_deep"

\* lines 31-32, 58-59, 77-78: fh.read() takes the whole file in
BytesRead(f) == SizeOf(f)

Max(a, b) == IF a > b THEN a ELSE b

\* line 140-141: extractor = _EXTRACTORS[ext]; imports = extractor(full_path)
Extract(f, ext) ==
    CASE ExtractorOf(ext) = "python" -> ExtractPython(f)
      [] ExtractorOf(ext) = "js" -> ExtractJs(f)
      [] ExtractorOf(ext) = "java" -> ExtractJava(f)

\* line 121: os.walk does not descend into a directory named in skip_dirs
Walked(f) == \A i \in 1..Len(f.dir) : f.dir[i] \notin SkipDirs

\* lines 123-124: ext = os.path.splitext(fname)[1].lower(); ext in _EXTRACTORS
Recognized(f) == ExtractorOf(Lower(SplitExtExt(f.name))) # "none"

\* lines 125-126: the (full_path, ext) pairs, in walk order
SourceFilesOf(t) ==
    LET fs == SelectSeq(t, LAMBDA f : Walked(f) /\ Recognized(f))
    IN  [i \in 1..Len(fs) |-> [file |-> fs[i], ext |-> Lower(SplitExtExt(fs[i].name))]]

\* lines 130-132: the name registered for the directory of a source file
PackageOf(f) == SplitFirst(Replace(RelDir(f), Sep, Dot), Dot)

\* lines 127-132: the internal-name registry
InternalModulesOf(t) ==
    LET fs == SourceFilesOf(t)
    IN  {SplitExtRoot(fs[i].file.name) : i \in 1..Len(fs)}
            \cup {PackageOf(fs[i].file) : i \in {j \in 1..Len(fs) : RelDir(fs[j].file) # <<Dot>>}}

\* a slip: every import is kept
InternalImportsBug(imports, registry) == imports

\* lines 144-146: the imports that name a registered module, in order
InternalImports(imports, registry) == SelectSeq(imports, LAMBDA imp : imp \in registry)

\* graph[rel] = internal_imports
Put(d, k, v) ==
    IF HasKey(d, k)
    THEN [i \in 1..Len(d) |-> IF d[i].key = k THEN [key |-> k, deps |-> v] ELSE d[i]]
    ELSE Append(d, [key |-> k, deps |-> v])

\* lines 120-132: the walk that collects source_files and internal_modules
Walk ==
    /\ pc = "walk"
    /\ source_files' = SourceFilesOf(tree)
    /\ internal_modules' = InternalModulesOf(tree)
    /\ pc' = "resolve"
    /\ UNCHANGED <<call, run, first, graph, dfsVars, tree, max_files, file_count, root_is_dir,
                   read_bytes, couplingVars, ruleVars, scoreVars>>

\* lines 135-148: one more source file, below the ceiling
ResolveFile ==
    /\ pc = "resolve"
    /\ file_count < Len(source_files)
    /\ file_count + 1 <= max_files
    /\ LET sf == source_files[file_count + 1]
           internal_imports == InternalImports(Extract(sf.file, sf.ext), internal_modules)
       IN  /\ ~ExtractRaises(sf.file, sf.ext)
           /\ graph' = IF internal_imports # <<>>
                        THEN Put(graph, RelPath(sf.file), internal_imports)
                        ELSE graph
           /\ read_bytes' = IF sf.file.state = "ok"
                             THEN Max(read_bytes, BytesRead(sf.file))
                             ELSE read_bytes
    /\ file_count' = file_count + 1
    /\ UNCHANGED <<call, run, first, pc, dfsVars, tree, max_files, source_files, internal_modules,
                   root_is_dir, couplingVars, ruleVars, scoreVars>>

\* line 141: the extractor raises, and so do build_dependency_graph and
\* analyse_dependencies
ResolveRaise ==
    /\ pc = "resolve"
    /\ file_count < Len(source_files)
    /\ file_count + 1 <= max_files
    /\ LET sf == source_files[file_count + 1]
       IN  /\ ExtractRaises(sf.file, sf.ext)
           /\ read_bytes' = Max(read_bytes, BytesRead(sf.file))
    /\ file_count' = file_count + 1
    /\ pc' = "raised"
    /\ UNCHANGED <<call, run, first, graph, dfsVars, tree, max_files, source_files, internal_modules,
                   root_is_dir, couplingVars, ruleVars, scoreVars>>

\* lines 136-138: the ceiling is passed, the loop breaks; line 155 returns
ResolveBreak ==
    /\ pc = "resolve"
    /\ file_count < Len(source_files)
    /\ file_count + 1 > max_files
    /\ file_count' = file_count + 1
    /\ pc' = IF call = "analyse_dependencies" THEN "cycles" ELSE "done"
    /\ UNCHANGED <<call, run, first, graph, dfsVars, tree, max_files, source_files, internal_modules,
                   root_is_dir, read_bytes, couplingVars, ruleVars, scoreVars>>

\* line 135: no source file is left; line 155 returns
ResolveEnd ==
    /\ pc = "resolve"
    /\ file_count >= Len(source_files)
    /\ pc' = IF call = "analyse_dependencies" THEN "cycles" ELSE "done"
    /\ UNCHANGED <<call, run, first, graph, dfsVars, buildVars, couplingVars, ruleVars, scoreVars>>

Build == Walk \/ ResolveFile \/ ResolveRaise \/ ResolveBreak \/ ResolveEnd

\* build_dependency_graph has returned `graph`
BuildReturned ==
    /\ call \in {"build_dependency_graph", "analyse_dependencies"}
    /\ pc \notin {"walk", "resolve", "raised"}

---------------------------------------------------------------------------
(* The rule engine (analysis/best_practices.py).                           *)

\* lines 26-32: Severity
Severities == {"critical", "high", "medium", "low", "info"}

\* lines 35-43: Finding; a description and an evidence are sequences of parts
Finding(name, descr, sev, ok, ev, rec) ==
    [rule_name |-> name, description |-> descr, severity |-> sev,
     passed |-> ok, evidence |-> ev, recommendation |-> rec]

\* lines 46-59: Rule
Rule(name, descr, sev, cat, chk, fw) ==
    [name |-> name, description |-> descr, severity |-> sev,
     category |-> cat, check |-> chk, frameworks |-> fw]

\* what a check may find under repo_path: a file or directory of the root,
\* a property of a file's content, a pattern matched by a scanned file
Facts ==
    {"file:.env", "gitignore_has:.env", "gitignore_has:.env.local",
     "gitignore_undecodable", "file:.env.example",
     "file:README.md", "readme_long", "dir:tests", "match:tests", "many:tests",
     "file:Dockerfile",
     "file:.flake8", "file:pyproject.toml", "file:.prettierrc", "pyproject_has:ruff",
     "pyproject_undecodable", "path:.github/workflows", "match:secrets",
     "match:cors", "match:validation", "match:auth", "match:rate_limit",
     "match:exception_handler", "match:response_model", "match:helmet"}

\* lines 66-90: _file_contains, the relative paths of the matching files
\* (one file matches, or six files do)
FileContains(F, pattern) ==
    IF ("many:" \o pattern) \in F
    THEN <<"t1.py", "t2.py", "t3.py", "t4.py", "t5.py", "t6.py">>
    ELSE IF ("match:" \o pattern) \in F THEN <<"src/app.py">> ELSE <<>>

\* lines 93-98: _file_exists, the first name found in the root, or None (<<>>)
FileExists(F, names) ==
    LET found == SelectSeq(names, LAMBDA n : ("file:" \o n) \in F)
    IN  IF found = <<>> THEN <<>> ELSE <<Head(found)>>

\* lines 101-106: _has_directory
HasDirectory(F, names) ==
    LET found == SelectSeq(names, LAMBDA n : ("dir:" \o n) \in F)
    IN  IF found = <<>> THEN <<>> ELSE <<Head(found)>>

\* matches[:n]
Take(s, n) == SubSeq(s, 1, IF Len(s) < n THEN Len(s) ELSE n)

Returns(f) == [raised |-> FALSE, finding |-> f, exc |-> ""]

Raises(msg) == [raised |-> TRUE, finding |-> <<>>, exc |-> msg]

\* lines 113-152: _check_env_files; reading a .gitignore that is not UTF-8
\* raises UnicodeDecodeError, which `except OSError` lets through; the test
\* `".env" in fh.read()` is met by a line .env and by a line .env.local
CheckEnvFiles(F) ==
    LET env_in_gitignore ==
            "gitignore_has:.env" \in F \/ "gitignore_has:.env.local" \in F
        has_example == FileExists(F, <<".env.example", ".env.sample", "env.example">>) # <<>>
        has_env == FileExists(F, <<".env">>) # <<>>
    IN  IF "gitignore_undecodable" \in F
        THEN Raises("'utf-8' codec can't decode byte")
        ELSE IF has_env /\ ~env_in_gitignore
        THEN Returns(Finding("env-files", <<".env file exists but is not in .gitignore">>,
                 "critical", FALSE, <<".env", ".gitignore">>,
                 "Add '.env' to .gitignore immediately to prevent secret leaks."))
        ELSE IF ~has_example /\ has_env
        THEN Returns(Finding("env-files", <<".env exists but no .env.example template provided">>,
                 "medium", FALSE, <<".env">>,
                 "Create a '.env.example' so collaborators know required variables."))
        ELSE Returns(Finding("env-files", <<"Environment file handling looks correct">>,
                 "info", TRUE, <<>>, ""))

\* lines 155-189: _check_readme
CheckReadme(F) ==
    LET readme == FileExists(F, <<"README.md", "readme.md", "README.rst", "README.txt">>)
    IN  IF readme = <<>>
        THEN Returns(Finding("readme", <<"No README found">>, "high", FALSE, <<>>,
                 "Add a README with project description, setup, and usage instructions."))
        ELSE IF "readme_long" \notin F
        THEN Returns(Finding("readme", <<"README exists but is very short">>, "medium", FALSE,
                 readme,
                 "Expand README with setup instructions, architecture overview, and usage examples."))
        ELSE Returns(Finding("readme", <<"README is present and has meaningful content">>,
                 "info", TRUE, readme, ""))

\* str(len(matches))
LenStr(s) ==
    CASE Len(s) = 0 -> "0"
      [] Len(s) = 1 -> "1"
      [] OTHER -> "6"

\* a slip: a test directory and matching files are both asked for
CheckTestsBug(F) ==
    LET test_dir == HasDirectory(F, <<"tests", "test", "__tests__", "spec">>)
        test_files == FileContains(F, "tests")
    IN  IF test_dir # <<>> /\ test_files # <<>>
        THEN Returns(Finding("tests",
                 <<"Tests found (", LenStr(test_files), " file(s) with test patterns)">>,
                 "info", TRUE, test_dir, ""))
        ELSE Returns(Finding("tests", <<"No test files or test directory found">>, "high", FALSE,
                 <<>>, "Add unit tests. Consider pytest (Python), Jest (JS), or JUnit (Java)."))

\* lines 192-212: _check_tests
CheckTests(F) ==
    LET test_dir == HasDirectory(F, <<"tests", "test", "__tests__", "spec">>)
        test_files == FileContains(F, "tests")
    IN  IF test_dir # <<>> \/ test_files # <<>>
        THEN Returns(Finding("tests",
                 <<"Tests found (", LenStr(test_files), " file(s) with test patterns)">>,
                 "info", TRUE, IF test_dir # <<>> THEN test_dir ELSE Take(test_files, 5), ""))
        ELSE Returns(Finding("tests", <<"No test files or test directory found">>, "high", FALSE,
                 <<>>, "Add unit tests. Consider pytest (Python), Jest (JS), or JUnit (Java)."))

\* a slip: the passing Finding keeps the rule's severity
CheckDockerfileBug(F) ==
    LET docker == FileExists(F, <<"Dockerfile", "docker-compose.yml", "docker-compose.yaml">>)
    IN  IF docker # <<>>
        THEN Returns(Finding("containerization", <<"Docker configuration found">>, "low", TRUE,
                 docker, ""))
        ELSE Returns(Finding("containerization", <<"No Dockerfile or docker-compose found">>,
                 "low", FALSE, <<>>,
                 "Consider adding Docker support for consistent deployments."))

\* lines 215-232: _check_dockerfile
CheckDockerfile(F) ==
    LET docker == FileExists(F, <<"Dockerfile", "docker-compose.yml", "docker-compose.yaml">>)
    IN  IF docker # <<>>
        THEN Returns(Finding("containerization", <<"Docker configuration found">>, "info", TRUE,
                 docker, ""))
        ELSE Returns(Finding("containerization", <<"No Dockerfile or docker-compose found">>,
                 "low", FALSE, <<>>,
                 "Consider adding Docker support for consistent deployments."))

\* lines 235-270: _check_linting; pyproject.toml is opened with the locale's
\* encoding, and a decoding error is no OSError
CheckLinting(F) ==
    LET found == FileExists(F, <<".flake8", ".pylintrc", "pyproject.toml", "setup.cfg",
                                 ".eslintrc.js", ".eslintrc.json", ".eslintrc.yml",
                                 ".prettierrc", ".prettierrc.json", "biome.json",
                                 "checkstyle.xml">>)
        missing == Returns(Finding("linting",
                       <<"No linting / formatting configuration detected">>, "medium", FALSE,
                       <<>>,
                       "Add a linter (ruff, eslint) and formatter (black, prettier) for code quality."))
    IN  IF found = <<>> THEN missing
        ELSE IF found = <<"pyproject.toml">>
        THEN IF "pyproject_undecodable" \in F
             THEN Raises("codec can't decode byte")
             ELSE IF "pyproject_has:ruff" \in F
             THEN Returns(Finding("linting", <<"Linting configuration found in pyproject.toml">>,
                      "info", TRUE, found, ""))
             ELSE missing
        ELSE Returns(Finding("linting", <<"Linting configuration found">>, "info", TRUE,
                 found, ""))

\* lines 273-298: _check_ci
CheckCi(F) ==
    IF "path:.github/workflows" \in F
    THEN Returns(Finding("ci-cd", <<"CI/CD configuration found">>, "info", TRUE,
             <<".github/workflows">>, ""))
    ELSE Returns(Finding("ci-cd", <<"No CI/CD pipeline configuration found">>, "high", FALSE,
             <<>>,
             "Add a CI pipeline (GitHub Actions, GitLab CI) for automated testing and deployment."))

\* the shape shared by the content scans: `bad` when a match is a defect
Scan(F, pattern, name, hit, miss, sev, bad, n, rec) ==
    LET matches == FileContains(F, pattern)
    IN  IF matches # <<>>
        THEN Returns(Finding(name, hit, IF bad THEN sev ELSE "info", ~bad,
                 Take(matches, n), IF bad THEN rec ELSE ""))
        ELSE Returns(Finding(name, miss, IF bad THEN "info" ELSE sev, bad,
                 <<>>, IF bad THEN "" ELSE rec))

\* lines 305-325: _check_hardcoded_secrets
CheckHardcodedSecrets(F) ==
    Scan(F, "secrets", "hardcoded-secrets",
         <<"Potential hardcoded secrets found in ", "1", " file(s)">>,
         <<"No obvious hardcoded secrets detected">>, "critical", TRUE, 5,
         "Move secrets to environment variables or a vault; never commit them.")

\* lines 328-346: _check_cors
CheckCors(F) ==
    Scan(F, "cors", "open-cors", <<"CORS configured to allow all origins (*)">>,
         <<"No overly permissive CORS configuration detected">>, "high", TRUE, 3,
         "Restrict CORS to known frontend domains.")

\* lines 349-367: _check_input_validation
CheckInputValidation(F) ==
    Scan(F, "validation", "input-validation", <<"Input validation patterns detected">>,
         <<"No input validation framework detected">>, "medium", FALSE, 5,
         "Add request validation (Pydantic, Joi, Zod) to prevent injection attacks.")

\* lines 370-388: _check_auth
CheckAuth(F) ==
    Scan(F, "auth", "authentication", <<"Authentication patterns detected">>,
         <<"No authentication/authorization patterns detected">>, "high", FALSE, 5,
         "Implement authentication (JWT, OAuth2) for protected endpoints.")

\* lines 395-402: _check_fastapi_exception_handlers
CheckFastapiExceptionHandlers(F) ==
    Scan(F, "exception_handler", "fastapi-error-handling", <<"FastAPI error handling found">>,
         <<"No custom exception handlers found">>, "medium", FALSE, 3,
         "Add @app.exception_handler for consistent error responses.")

\* lines 405-412: _check_fastapi_response_models
CheckFastapiResponseModels(F) ==
    Scan(F, "response_model", "fastapi-response-models",
         <<"Response models used in endpoints">>,
         <<"No response_model declarations found on endpoints">>, "medium", FALSE, 3,
         "Use response_model in route decorators for auto-documentation and serialization.")

\* lines 419-426: _check_helmet
CheckHelmet(F) ==
    Scan(F, "helmet", "express-helmet", <<"Helmet.js is used for security headers">>,
         <<"Helmet.js not detected">>, "medium", FALSE, 3,
         "Add 'helmet' middleware for secure HTTP headers.")

\* lines 429-436: _check_rate_limiting
CheckRateLimiting(F) ==
    Scan(F, "rate_limit", "rate-limiting", <<"Rate limiting detected">>,
         <<"No rate limiting detected">>, "medium", FALSE, 3,
         "Add rate limiting to protect against abuse (slowapi for FastAPI, express-rate-limit for Express).")

\* line 497: rule.check(repo_path, key_files, tech_stack); "always_raises"
\* is the check of a caller's rule that throws on every call
RunCheck(check, F) ==
    CASE check = "_check_env_files" -> CheckEnvFiles(F)
      [] check = "_check_readme" -> CheckReadme(F)
      [] check = "_check_tests" -> CheckTests(F)
      [] check = "_check_dockerfile" -> CheckDockerfile(F)
      [] check = "_check_linting" -> CheckLinting(F)
      [] check = "_check_ci" -> CheckCi(F)
      [] check = "_check_hardcoded_secrets" -> CheckHardcodedSecrets(F)
      [] check = "_check_cors" -> CheckCors(F)
      [] check = "_check_input_validation" -> CheckInputValidation(F)
      [] check = "_check_auth" -> CheckAuth(F)
      [] check = "_check_rate_limiting" -> CheckRateLimiting(F)
      [] check = "_check_fastapi_exception_handlers" -> CheckFastapiExceptionHandlers(F)
      [] check = "_check_fastapi_response_models" -> CheckFastapiResponseModels(F)
      [] check = "_check_helmet" -> CheckHelmet(F)
      [] check = "always_raises" -> Raises("boom")

\* lines 443-455: GENERAL_RULES
GENERAL_RULES ==
    << Rule("env-files", "Environment file management", "critical", "security", "_check_env_files", <<"general">>),
       Rule("readme", "README documentation", "high", "documentation", "_check_readme", <<"general">>),
       Rule("tests", "Test coverage", "high", "testing", "_check_tests", <<"general">>),
       Rule("containerization", "Docker support", "low", "devops", "_check_dockerfile", <<"general">>),
       Rule("linting", "Code linting/formatting", "medium", "quality", "_check_linting", <<"general">>),
       Rule("ci-cd", "CI/CD pipeline", "high", "devops", "_check_ci", <<"general">>),
       Rule("hardcoded-secrets", "Hardcoded secrets", "critical", "security", "_check_hardcoded_secrets", <<"general">>),
       Rule("open-cors", "CORS configuration", "high", "security", "_check_cors", <<"general">>),
       Rule("input-validation", "Input validation", "medium", "security", "_check_input_validation", <<"general">>),
       Rule("authentication", "Authentication mechanism", "high", "security", "_check_auth", <<"general">>),
       Rule("rate-limiting", "Rate limiting", "medium", "security", "_check_rate_limiting", <<"general">>) >>

\* lines 457-460: FASTAPI_RULES
FASTAPI_RULES ==
    << Rule("fastapi-error-handling", "FastAPI exception handlers", "medium", "quality", "_check_fastapi_exception_handlers", <<"fastapi">>),
       Rule("fastapi-response-models", "FastAPI response models", "medium", "quality", "_check_fastapi_response_models", <<"fastapi">>) >>

\* lines 462-464: EXPRESS_RULES
EXPRESS_RULES ==
    << Rule("express-helmet", "Helmet.js security headers", "medium", "security", "_check_helmet", <<"express">>) >>

\* `marker in tech_lower`, for a marker that is one token
Contains(s, marker) == marker \in Range(s)

\* a slip: the markers are looked for in the description as given
GetRulesForStackBug(stack) ==
    GENERAL_RULES
        \o (IF Contains(stack, "fastapi") THEN FASTAPI_RULES ELSE <<>>)
        \o (IF Contains(stack, "express") \/ Contains(stack, "node")
            THEN EXPRESS_RULES ELSE <<>>)

\* lines 467-477: get_rules_for_stack
GetRulesForStack(stack) ==
    LET tech_lower == Lower(stack)
    IN  GENERAL_RULES
            \o (IF Contains(tech_lower, "fastapi") THEN FASTAPI_RULES ELSE <<>>)
            \o (IF Contains(tech_lower, "express") \/ Contains(tech_lower, "node")
                THEN EXPRESS_RULES ELSE <<>>)

\* a slip: the synthesized Finding is tagged with a fixed severity
SynthesizedBug(rule, exc) ==
    Finding(rule.name, <<"Rule evaluation failed: ", exc>>, "high", FALSE, <<>>, "")

\* lines 501-506: the Finding made for a rule whose check raised
Synthesized(rule, exc) ==
    Finding(rule.name, <<"Rule evaluation failed: ", exc>>, rule.severity, FALSE, <<>>, "")

\* line 495: `for rule in rules` has a rule left
RulePending == pc = "evaluate" /\ Len(findings) < Len(rules)

NextRule == rules[Len(findings) + 1]

\* lines 491-492: rules is None, the rules of the stack are taken
SelectRules ==
    /\ pc = "select"
    /\ rules' = GetRulesForStack(tech_stack)
    /\ pc' = IF call = "get_rules_for_stack" THEN "done" ELSE "evaluate"
    /\ UNCHANGED <<call, run, first, graph, dfsVars, buildVars, couplingVars, tech_stack, facts,
                   findings, scoreVars>>

\* lines 496-498: the check of the next rule returns its Finding
EvalReturn ==
    /\ RulePending
    /\ ~RunCheck(NextRule.check, facts).raised
    /\ findings' = Append(findings, RunCheck(NextRule.check, facts).finding)
    /\ UNCHANGED <<call, run, first, pc, graph, dfsVars, buildVars, couplingVars, tech_stack, facts,
                   rules, scoreVars>>

\* lines 499-506: the check of the next rule raises, a failing Finding is made
EvalRaise ==
    /\ RulePending
    /\ RunCheck(NextRule.check, facts).raised
    /\ findings' = Append(findings, Synthesized(NextRule, RunCheck(NextRule.check, facts).exc))
    /\ UNCHANGED <<call, run, first, pc, graph, dfsVars, buildVars, couplingVars, tech_stack, facts,
                   rules, scoreVars>>

\* line 508: `return findings`; gap_analyzer_agent goes on to the score
EvalFinish ==
    /\ pc = "evaluate" /\ Len(findings) >= Len(rules)
    /\ pc' = IF call = "gap_analyzer_agent" THEN "score" ELSE "done"
    /\ UNCHANGED <<call, run, first, graph, dfsVars, buildVars, couplingVars, ruleVars, scoreVars>>

Evaluate == SelectRules \/ EvalReturn \/ EvalRaise \/ EvalFinish

\* evaluate_rules has returned `findings`
RulesReturned == pc \in {"score", "done"} /\ call \in {"evaluate_rules", "gap_analyzer_agent"}

---------------------------------------------------------------------------
(* _compute_maturity_score (agents/gap_analyzer.py 55-84).                 *)

\* lines 64-70, 76: severity_weights.get(f.severity, 5)
Weight(sev) ==
    CASE sev = "critical" -> 20
      [] sev = "high" -> 15
      [] sev = "medium" -> 10
      [] sev = "low" -> 5
      [] sev = "info" -> 2
      [] OTHER -> 5

\* lines 75-77: total_weight over the Findings
RECURSIVE TotalWeight(_)
TotalWeight(fs) ==
    IF fs = <<>> THEN 0 ELSE Weight(Head(fs).severity) + TotalWeight(Tail(fs))

\* a slip: the weight is earned by the Findings that did not pass
RECURSIVE EarnedWeightBug(_)
EarnedWeightBug(fs) ==
    IF fs = <<>> THEN 0
    ELSE (IF Head(fs).passed THEN 0 ELSE Weight(Head(fs).severity)) + EarnedWeightBug(Tail(fs))

\* lines 75-79: earned_weight over the Findings
RECURSIVE EarnedWeight(_)
EarnedWeight(fs) ==
    IF fs = <<>> THEN 0
    ELSE (IF Head(fs).passed THEN Weight(Head(fs).severity) ELSE 0) + EarnedWeight(Tail(fs))

\* a slip: int() in place of round()
Round100Bug(e, t) == (e * 100) \div t

\* round((e / t) * 100) in IEEE doubles: to the nearest integer, a half to
\* the even one; of the ratios that give an exact half, the product is not
\* exact for 23/40 (57.49999999999999) and 109/200 (54.50000000000001)
Round100(e, t) ==
    LET q == (e * 100) \div t
        r == (e * 100) % t
    IN  IF 40 * e = 23 * t THEN 57
        ELSE IF 200 * e = 109 * t THEN 55
        ELSE IF 2 * r > t \/ (2 * r = t /\ q % 2 = 1) THEN q + 1
        ELSE q

Min(a, b) == IF a < b THEN a ELSE b

\* a slip: the share of the weight that was not earned
MaturityScoreBug(fs) ==
    IF fs = <<>> THEN 0
    ELSE IF TotalWeight(fs) = 0 THEN 0
    ELSE Min(100, Round100(TotalWeight(fs) - EarnedWeight(fs), TotalWeight(fs)))

\* lines 61-84
MaturityScore(fs) ==
    IF fs = <<>> THEN 0
    ELSE IF TotalWeight(fs) = 0 THEN 0
    ELSE Min(100, Round100(EarnedWeight(fs), TotalWeight(fs)))

\* lines 55-84: the whole of _compute_maturity_score(findings)
ComputeScore ==
    /\ pc = "score"
    /\ total_weight' = IF findings = <<>> THEN 0 ELSE TotalWeight(findings)
    /\ earned_weight' = IF findings = <<>> THEN 0 ELSE EarnedWeight(findings)
    /\ score' = MaturityScore(findings)
    /\ pc' = "done"
    /\ UNCHANGED <<call, run, first, graph, dfsVars, buildVars, couplingVars, ruleVars>>

\* lines 72-73: the locals of a fresh call
ScoreLocals == total_weight = 0 /\ earned_weight = 0 /\ score = 0

---------------------------------------------------------------------------
(* The calls.                                                              *)

\* no tree is scanned in a call that is handed its graph
BuildIdle ==
    /\ tree = <<>> /\ max_files = 0 /\ source_files = <<>>
    /\ internal_modules = {} /\ file_count = 0
    /\ root_is_dir = TRUE /\ read_bytes = 0

\* no rule is evaluated in a call of the dependency mapper
RulesIdle ==
    /\ tech_stack = <<>> /\ facts = {} /\ rules = <<>> /\ findings = <<>>
    /\ ScoreLocals

\* a call find_circular_dependencies(graph)
InitCycles ==
    /\ call = "find_circular_dependencies"
    /\ run = 1 /\ first = <<>>
    /\ pc = "cycles"
    /\ IsGraphInput(graph)
    /\ DfsLocals
    /\ stack_limit \in {2, RecursionLimit}
    /\ BuildIdle
    /\ CouplingLocals /\ threshold = 0
    /\ RulesIdle

NextCycles == Dfs \/ DfsOverflow \/ DfsFinish

SpecCycles == InitCycles /\ [][NextCycles]_vars

\* a call find_high_coupling_modules(graph, threshold)
InitCoupling ==
    /\ call = "find_high_coupling_modules"
    /\ run = 1 /\ first = <<>>
    /\ pc = "coupling"
    /\ IsGraphInput(graph)
    /\ threshold \in 0..MaxThreshold
    /\ CouplingLocals
    /\ DfsLocals /\ stack_limit = RecursionLimit
    /\ BuildIdle
    /\ RulesIdle

NextCoupling == Coupling

SpecCoupling == InitCoupling /\ [][NextCoupling]_vars

\* a call analyse_dependencies(repo_path, settings) (lines 217-234)
Init ==
    /\ call = "analyse_dependencies"
    /\ run = 1 /\ first = <<>>
    /\ pc = "walk"
    /\ root_is_dir \in BOOLEAN
    /\ IF root_is_dir THEN IsTree(tree, MaxFiles, MaxImports) ELSE tree = <<>>
    /\ max_files \in {1, DefaultMaxFiles}
    /\ source_files = <<>> /\ internal_modules = {} /\ file_count = 0
    /\ read_bytes = 0
    /\ graph = <<>>
    /\ DfsLocals /\ stack_limit = RecursionLimit
    /\ CouplingLocals /\ threshold = DefaultThreshold
    /\ RulesIdle

Next == Build \/ Dfs \/ DfsFinish \/ Coupling

Spec == Init /\ [][Next]_vars

\* a call build_dependency_graph(repo_path, settings) (lines 100-155)
InitBuild ==
    /\ call = "build_dependency_graph"
    /\ run = 1 /\ first = <<>>
    /\ pc = "walk"
    /\ root_is_dir \in BOOLEAN
    /\ IF root_is_dir THEN IsTree(tree, MaxFiles, MaxImports) ELSE tree = <<>>
    /\ max_files \in {1, DefaultMaxFiles}
    /\ source_files = <<>> /\ internal_modules = {} /\ file_count = 0
    /\ read_bytes = 0
    /\ graph = <<>>
    /\ DfsLocals /\ stack_limit = RecursionLimit
    /\ CouplingLocals /\ threshold = 0
    /\ RulesIdle

NextBuild == Build

SpecBuild == InitBuild /\ [][NextBuild]_vars

\* the stack descriptions handed over
Stacks == {<<>>, <<"Python", " ", "FastAPI">>, <<"Node", Dot, "js">>, <<"Express">>}

\* the rules a caller hands to evaluate_rules itself
CallerRules ==
    {Rule("always-raises", "A check that throws", "low", "custom", "always_raises", <<"general">>),
     GENERAL_RULES[1],
     GENERAL_RULES[4]}

\* the facts the checks of the caller's rules read
CallerFacts ==
    {"file:.env", "gitignore_has:.env", "gitignore_undecodable", "file:.env.example",
     "file:Dockerfile"}

\* the subsets of S of at most n elements
RECURSIVE SubsetsUpTo(_, _)
SubsetsUpTo(S, n) ==
    IF n = 0 THEN {{}}
    ELSE LET P == SubsetsUpTo(S, n - 1)
         IN  P \cup {F \cup {x} : F \in P, x \in S}

FactSets(S) == SubsetsUpTo(S, MaxFacts)

\* no dependency analysis runs in a call of the rule engine
MapperIdle ==
    /\ graph = <<>> /\ DfsLocals /\ stack_limit = RecursionLimit /\ BuildIdle /\ CouplingLocals /\ threshold = 0

\* a call gap_analyzer_agent(llm, state) (gap_analyzer.py 133-143), which
\* calls evaluate_rules(repo_path, key_files, tech_stack) with rules = None
InitAgent ==
    /\ call = "gap_analyzer_agent"
    /\ run = 1 /\ first = <<>>
    /\ pc = "select"
    /\ tech_stack \in Stacks
    /\ facts \in FactSets(Facts)
    /\ rules = <<>> /\ findings = <<>>
    /\ ScoreLocals
    /\ MapperIdle

\* a call evaluate_rules(repo_path, key_files, tech_stack, rules)
InitEvaluate ==
    /\ call = "evaluate_rules"
    /\ run = 1 /\ first = <<>>
    /\ pc = "evaluate"
    /\ tech_stack = <<>>
    /\ facts \in FactSets(CallerFacts)
    /\ rules \in SeqsUpTo(CallerRules, MaxRules)
    /\ findings = <<>>
    /\ ScoreLocals
    /\ MapperIdle

InitRules == InitAgent \/ InitEvaluate

NextRules == Evaluate \/ ComputeScore

SpecRules == InitRules /\ [][NextRules]_vars

\* the parts of a stack description: a description that holds a marker, in
\* any case and next to any text, is one that has the marker among its tokens
StackTokens ==
    {"FastAPI", "fastapi", "FASTAPI", "Express", "express", "EXPRESS",
     "Node", "node", "NODE", "Python", " ", Dot, "js"}

\* a call get_rules_for_stack(tech_stack)
InitStack ==
    /\ call = "get_rules_for_stack"
    /\ run = 1 /\ first = <<>>
    /\ pc = "select"
    /\ tech_stack \in SeqsUpTo(StackTokens, MaxTokens)
    /\ facts = {} /\ rules = <<>> /\ findings = <<>>
    /\ ScoreLocals
    /\ MapperIdle

NextStack == SelectRules

SpecStack == InitStack /\ [][NextStack]_vars

\* get_rules_for_stack has returned `rules`
StackReturned ==
    \/ call = "get_rules_for_stack" /\ pc = "done"
    \/ call = "gap_analyzer_agent" /\ pc # "select"

\* the Findings a caller may hand over: any rule's name, any severity, passed
\* or not (gap_analyzer.py 55: findings: List[Finding])
AnyFindings ==
    {Finding(n, <<>>, sev, ok, <<>>, "") :
        n \in {"rule"}, sev \in Severities, ok \in BOOLEAN}

\* a call _compute_maturity_score(findings)
InitScore ==
    /\ call = "_compute_maturity_score"
    /\ run = 1 /\ first = <<>>
    /\ pc = "score"
    /\ findings \in SeqsUpTo(AnyFindings, MaxFindings)
    /\ tech_stack = <<>> /\ facts = {} /\ rules = <<>>
    /\ ScoreLocals
    /\ MapperIdle

NextScore == ComputeScore

SpecScore == InitScore /\ [][NextScore]_vars

\* _compute_maturity_score has returned `score`
ScoreReturned == pc = "done" /\ call \in {"_compute_maturity_score", "gap_analyzer_agent"}

---------------------------------------------------------------------------
(* The graph as a directed graph, apart from the traversal.                *)

Succ(g, x) == Range(Get(g, x))

Vertices(g) == Range(Keys(g)) \cup UNION {Range(g[i].deps) : i \in 1..Len(g)}

RECURSIVE Closure(_, _)
Closure(g, S) ==
    LET T == S \cup UNION {Succ(g, x) : x \in S}
    IN  IF T = S THEN S ELSE Closure(g, T)

\* a directed walk of at least one edge leads from x to y
Reaches(g, x, y) == y \in Closure(g, Succ(g, x))

OnCycle(g, x) == Reaches(g, x, x)

HasCycle(g) == \E x \in Vertices(g) : OnCycle(g, x)

\* c is a closed walk of g: c[1] -> c[2] -> ... -> c[Len(c)] = c[1]
ClosedWalk(g, c) ==
    /\ Len(c) >= 2
    /\ c[1] = c[Len(c)]
    /\ \A i \in 1..(Len(c) - 1) : c[i + 1] \in Succ(g, c[i])

\* the simple directed cycles of g, each as the sequence of its nodes
SimpleCycles(g) ==
    {s \in Injective(Vertices(g)) :
        /\ Len(s) >= 1
        /\ \A i \in 1..Len(s) : s[(i % Len(s)) + 1] \in Succ(g, s[i])}

Front(c) == SubSeq(c, 1, Len(c) - 1)

IsRotation(s, t) ==
    /\ Len(s) = Len(t)
    /\ \E k \in 0..(Len(s) - 1) : \A i \in 1..Len(s) : t[i] = s[((i + k - 1) % Len(s)) + 1]

\* find_circular_dependencies has returned `cycles`
CyclesReturned == pc = "done" /\ call = "find_circular_dependencies"

MutualGraph(x, y) == <<[key |-> x, deps |-> <<y>>], [key |-> y, deps |-> <<x>>]>>

---------------------------------------------------------------------------
(* Claims on find_circular_dependencies.                                   *)

\* C3: the returned list is empty for every graph with no directed cycle and
\* non-empty for every graph with one; for the graph {A: [B], B: [A]} some
\* returned cycle holds both A and B.
C3_EmptyIffAcyclic ==
    CyclesReturned =>
        /\ (cycles = <<>>) <=> ~HasCycle(graph)
        /\ \A x, y \in Nodes :
               (x # y /\ graph = MutualGraph(x, y)) =>
                   \E i \in 1..Len(cycles) : {x, y} \subseteq Range(cycles[i])

C3_Witness ==
    /\ CyclesReturned
    /\ graph = MutualGraph(<<"a">>, <<"b">>)
    /\ cycles = << <<(<<"a">>), (<<"b">>), (<<"a">>)>> >>

\* C4 as stated: every simple directed cycle of the graph is returned (up to
\* rotation), so every node on a cycle is in some returned cycle.
C4_AllCyclesFound ==
    CyclesReturned =>
        /\ \A s \in SimpleCycles(graph) :
               \E i \in 1..Len(cycles) : IsRotation(Front(cycles[i]), s)
        /\ \A x \in Vertices(graph) :
               OnCycle(graph, x) => \E i \in 1..Len(cycles) : x \in Range(cycles[i])

\* C4 amended: every returned sequence is a simple directed cycle of the
\* graph, and every node on a cycle is strongly connected to a node of some
\* returned cycle (each cyclic strongly connected component yields a returned
\* cycle); a simple cycle, and a node on one, may be missing from the result.
C4_EveryComponentFound ==
    CyclesReturned =>
        /\ \A i \in 1..Len(cycles) :
               \E s \in SimpleCycles(graph) : IsRotation(Front(cycles[i]), s)
        /\ \A x \in Vertices(graph) :
               OnCycle(graph, x) =>
                   \E i \in 1..Len(cycles) : \E y \in Range(cycles[i]) :
                       Reaches(graph, x, y) /\ Reaches(graph, y, x)

\* a cycle through c is in the graph and c is in no returned cycle
C4_Witness ==
    /\ CyclesReturned
    /\ \E x \in Vertices(graph) :
           /\ OnCycle(graph, x)
           /\ \A i \in 1..Len(cycles) : x \notin Range(cycles[i])

\* C5: every recorded sequence is a closed walk of the input graph: at least
\* two entries, first and last equal, each consecutive pair an edge.
C5_ClosedWalks == \A i \in 1..Len(cycles) : ClosedWalk(graph, cycles[i])

\* a self-loop (two entries) and a cycle through three nodes were returned
C5_Witness ==
    /\ CyclesReturned
    /\ \E i, j \in 1..Len(cycles) :
           Len(cycles[i]) = 2 /\ Cardinality(Range(cycles[j])) = 3

---------------------------------------------------------------------------
(* Claims on build_dependency_graph and analyse_dependencies.              *)

\* the relative paths of the files discovered in the scan
ScannedPaths == {RelPath(source_files[i].file) : i \in 1..Len(source_files)}

\* C1: in every graph build_dependency_graph returns, every key and every
\* entry of every dependency list is the path of a file discovered in that
\* scan.
C1_NoDanglingReferences ==
    BuildReturned =>
        \A i \in 1..Len(graph) :
            /\ graph[i].key \in ScannedPaths
            /\ \A d \in Range(graph[i].deps) : d \in ScannedPaths

\* the tree of the scenario: a.py importing b, b.py importing a, nothing else
MutualTree ==
    << [dir |-> <<>>, name |-> <<"a", Dot, "py">>, state |-> "ok", refs |-> << <<"b">> >>],
       [dir |-> <<>>, name |-> <<"b", Dot, "py">>, state |-> "ok", refs |-> << <<"a">> >>] >>

\* the cycle c includes the file f, under its path or its module name
Includes(c, f) == RelPath(f) \in Range(c) \/ SplitExtRoot(f.name) \in Range(c)

\* C2: for a root holding only a.py importing b and b.py importing a,
\* analyse_dependencies returns at least one cycle that includes both files.
C2_MutualImportCycle ==
    (pc = "done" /\ call = "analyse_dependencies"
        /\ tree = MutualTree /\ max_files = DefaultMaxFiles) =>
        \E i \in 1..Len(cycles) :
            Includes(cycles[i], tree[1]) /\ Includes(cycles[i], tree[2])

---------------------------------------------------------------------------
(* Claims on find_high_coupling_modules.                                   *)

\* the keys whose dependency list names the node
Sources(g, v) == {i \in 1..Len(g) : v \in Range(g[i].deps)}

\* the number of distinct source nodes whose list names the node
InDegree(g, v) == Cardinality(Sources(g, v))

\* every node named by some dependency list
Targets(g) == UNION {Range(g[i].deps) : i \in 1..Len(g)}

\* every dependency list, one after the other
RECURSIVE Flat(_)
Flat(g) == IF g = <<>> THEN <<>> ELSE Head(g).deps \o Flat(Tail(g))

\* every list of the graph is counted
Counted == (pc = "coupling" /\ src > Len(graph)) \/ CouplingReturned

\* C6: the in-degree computed for a node is the number of distinct source
\* nodes whose list names it; a source naming it twice is counted once.
C6_DistinctSources ==
    (Counted /\ call = "analyse_dependencies") =>
        \A i \in 1..Len(in_degree) :
            in_degree[i].count = InDegree(graph, in_degree[i].key)

\* C7: the returned list holds exactly the dependency targets whose in-degree
\* (distinct sources) is at least the threshold.
C7_ExactlyAtThreshold ==
    (CouplingReturned /\ call = "find_high_coupling_modules") =>
        Range(high_coupling) = {v \in Targets(graph) : InDegree(graph, v) >= threshold}

\* C8: the returned list is ordered by in-degree descending, and entries of
\* equal in-degree keep the order in which they were first seen as targets.
C8_DescendingStable ==
    (CouplingReturned /\ call = "find_high_coupling_modules") =>
        \A i, j \in 1..Len(high_coupling) :
            i < j =>
                LET x == high_coupling[i]
                    y == high_coupling[j]
                IN  /\ InDegree(graph, x) >= InDegree(graph, y)
                    /\ InDegree(graph, x) = InDegree(graph, y) =>
                           Index(Flat(graph), x) < Index(Flat(graph), y)

\* what holds of the count the code keeps (the occurrences of a node in the
\* lists): the list holds exactly the nodes with count >= threshold, by count
\* descending, equal counts in first-seen order
CouplingByCount ==
    (CouplingReturned /\ call = "find_high_coupling_modules") =>
        LET Occ(v) == Cardinality({k \in 1..Len(Flat(graph)) : Flat(graph)[k] = v})
        IN  /\ Range(high_coupling) = {v \in Targets(graph) : Occ(v) >= threshold}
            /\ \A i, j \in 1..Len(high_coupling) :
                   i < j =>
                       /\ Occ(high_coupling[i]) >= Occ(high_coupling[j])
                       /\ Occ(high_coupling[i]) = Occ(high_coupling[j]) =>
                              Index(Flat(graph), high_coupling[i])
                                  < Index(Flat(graph), high_coupling[j])

---------------------------------------------------------------------------
(* Claims on evaluate_rules and _compute_maturity_score.                   *)

\* C9: evaluate_rules returns exactly one Finding per rule, in rule order; for
\* a rule whose check raises, the Finding at its position is failed and holds
\* the rule's name, the rule's declared severity and a description carrying
\* the error message; the rules after it are evaluated all the same.
C9_OneFindingPerRule ==
    /\ Len(findings) <= Len(rules)
    /\ RulesReturned => Len(findings) = Len(rules)
    /\ \A i \in 1..Len(findings) :
           LET res == RunCheck(rules[i].check, facts)
           IN  IF res.raised
               THEN /\ findings[i].passed = FALSE
                    /\ findings[i].rule_name = rules[i].name
                    /\ findings[i].severity = rules[i].severity
                    /\ res.exc \in Range(findings[i].description)
               ELSE findings[i] = res.finding

\* a check raised and the rule after it was evaluated
C9_Witness ==
    /\ RulesReturned
    /\ Len(findings) = Len(rules)
    /\ \E i \in 1..(Len(rules) - 1) :
           /\ RunCheck(rules[i].check, facts).raised
           /\ ~RunCheck(rules[i + 1].check, facts).raised
           /\ findings[i + 1].passed

\* the weights of the severities the rules declare, of all rules or of those
\* whose Finding passed
RECURSIVE DeclaredWeight(_, _, _)
DeclaredWeight(rs, fs, onlyPassed) ==
    IF rs = <<>> THEN 0
    ELSE (IF onlyPassed /\ ~Head(fs).passed THEN 0 ELSE Weight(Head(rs).severity))
             + DeclaredWeight(Tail(rs), Tail(fs), onlyPassed)

\* C10: the weight added to the running total for a Finding (and to the
\* earned total when it passed) is the weight of the severity its rule
\* declares, so the total weight of a rule set does not depend on the outcome.
C10_DeclaredWeights ==
    (pc = "done" /\ call = "gap_analyzer_agent") =>
        /\ total_weight = DeclaredWeight(rules, findings, FALSE)
        /\ earned_weight = DeclaredWeight(rules, findings, TRUE)

---------------------------------------------------------------------------
(* Claims on _compute_maturity_score over any list of Findings.            *)

\* the weight the specification gives each severity (CRITICAL=20, HIGH=15,
\* MEDIUM=10, LOW=5, INFO=2)
SeverityWeight == [critical |-> 20, high |-> 15, medium |-> 10, low |-> 5, info |-> 2]

RECURSIVE WeightSum(_, _)
WeightSum(fs, onlyPassed) ==
    IF fs = <<>> THEN 0
    ELSE (IF onlyPassed /\ ~Head(fs).passed THEN 0 ELSE SeverityWeight[Head(fs).severity])
             + WeightSum(Tail(fs), onlyPassed)

\* n is an integer nearest to 100 * e / t
Nearest(n, e, t) ==
    LET d == n * t - 100 * e
    IN  2 * (IF d < 0 THEN 0 - d ELSE d) <= t

AllOf(fs, sev, ok) == \A i \in 1..Len(fs) : fs[i].severity = sev /\ fs[i].passed = ok

\* C11: _compute_maturity_score returns an integer in 0..100 for every list
\* of Findings: 0 for the empty list, 100 when every Finding is INFO and
\* passed, 0 when every Finding is CRITICAL and failed, and otherwise
\* earned/total * 100 rounded to a nearest integer.
C11_ScoreInRange ==
    ScoreReturned =>
        /\ score \in 0..100
        /\ findings = <<>> => score = 0
        /\ (findings # <<>> /\ AllOf(findings, "info", TRUE)) => score = 100
        /\ (findings # <<>> /\ AllOf(findings, "critical", FALSE)) => score = 0
        /\ findings # <<>> =>
               Nearest(score, WeightSum(findings, TRUE), WeightSum(findings, FALSE))

\* a score that had to be rounded up: 20 earned of 30
C11_Witness ==
    /\ ScoreReturned /\ call = "_compute_maturity_score"
    /\ WeightSum(findings, TRUE) = 20 /\ WeightSum(findings, FALSE) = 30
    /\ score = 67

\* the list with its i-th Finding passed, all else unchanged
Flip(fs, i) == [fs EXCEPT ![i].passed = TRUE]

\* C12: the maturity score is monotonic: changing any single failing Finding
\* to passing, its severity and all else unchanged, yields a score that is
\* not lower than before.
C12_Monotonic ==
    ScoreReturned =>
        \A i \in 1..Len(findings) :
            ~findings[i].passed => MaturityScore(Flip(findings, i)) >= score

\* a failing Finding among others, whose flip raises the score
C12_Witness ==
    /\ ScoreReturned /\ call = "_compute_maturity_score"
    /\ Len(findings) >= 2
    /\ \E i \in 1..Len(findings) :
           /\ ~findings[i].passed
           /\ score > 0
           /\ MaturityScore(Flip(findings, i)) > score

---------------------------------------------------------------------------
(* Claims on get_rules_for_stack.                                          *)

\* the description holds one of the spellings of a marker
Mentions(stack, spellings) == \E i \in 1..Len(stack) : stack[i] \in spellings

RuleNames(rs) == [i \in 1..Len(rs) |-> rs[i].name]

NoRepeat(s) == \A i, j \in 1..Len(s) : s[i] = s[j] => i = j

\* C13: get_rules_for_stack returns the general rules first, in registry
\* order, then the FastAPI rules exactly when the description holds 'fastapi'
\* in any case, then the Express rules exactly when it holds 'express' or
\* 'node' in any case; no rule appears twice.
C13_RulesForStack ==
    StackReturned =>
        /\ rules = GENERAL_RULES
              \o (IF Mentions(tech_stack, {"fastapi", "FastAPI", "FASTAPI"})
                  THEN FASTAPI_RULES ELSE <<>>)
              \o (IF Mentions(tech_stack, {"express", "Express", "EXPRESS",
                                           "node", "Node", "NODE"})
                  THEN EXPRESS_RULES ELSE <<>>)
        /\ NoRepeat(RuleNames(rules))
        /\ RuleNames(SubSeq(rules, 1, 11)) =
               <<"env-files", "readme", "tests", "containerization", "linting", "ci-cd",
                 "hardcoded-secrets", "open-cors", "input-validation", "authentication",
                 "rate-limiting">>

\* a description naming both frameworks in upper case, Express by two markers
C13_Witness ==
    /\ call = "get_rules_for_stack" /\ pc = "done"
    /\ tech_stack = <<"FASTAPI", "EXPRESS", "Node">>
    /\ Len(rules) = 14

---------------------------------------------------------------------------
(* Claims on the checks of the registry.                                   *)

\* the positions of the Findings reported for the rules with the given check
FindingsOf(chk) == {i \in 1..Len(findings) : rules[i].check = chk}

Outcome(f) == <<f.severity, f.passed>>

\* C14: the env-files check has one of three outcomes: CRITICAL fail when
\* .env exists in the root and is absent from .gitignore (with or without an
\* example file); MEDIUM fail when .env exists, is listed in .gitignore and no
\* example file exists; INFO pass in every other case.
C14_EnvFilesOutcomes ==
    \A i \in FindingsOf("_check_env_files") :
        LET has_env == "file:.env" \in facts
            listed == "gitignore_has:.env" \in facts
            example == "file:.env.example" \in facts
        IN  /\ findings[i].rule_name = "env-files"
            /\ Outcome(findings[i]) =
                   IF has_env /\ ~listed THEN <<"critical", FALSE>>
                   ELSE IF has_env /\ listed /\ ~example THEN <<"medium", FALSE>>
                   ELSE <<"info", TRUE>>

\* C15: the linting check passes with INFO whenever a known linter or
\* formatter config file exists in the root; the file must mention a known
\* linting tool only when pyproject.toml is the only match; otherwise the
\* check fails with MEDIUM.
C15_LintingOutcomes ==
    \A i \in FindingsOf("_check_linting") :
        LET matches == {n \in {".flake8", "pyproject.toml", ".prettierrc"} :
                           ("file:" \o n) \in facts}
            counts == IF matches = {"pyproject.toml"}
                      THEN "pyproject_has:ruff" \in facts
                      ELSE matches # {}
        IN  /\ findings[i].rule_name = "linting"
            /\ Outcome(findings[i]) =
                   IF counts THEN <<"info", TRUE>> ELSE <<"medium", FALSE>>

---------------------------------------------------------------------------
(* Claims on the scan of build_dependency_graph.                           *)

\* C16: when the repository root is missing or is no directory, the scan
\* reports 'not found' to its caller; it does not return the empty result
\* that the scan of an existing, empty repository returns.
C16_NotFoundSignal == (BuildReturned /\ ~root_is_dir) => graph # <<>>

\* the graph of the first n of the source files, no file left out by a cap
RECURSIVE GraphOfFirst(_, _, _)
GraphOfFirst(sfs, registry, n) ==
    IF n = 0 THEN <<>>
    ELSE LET g == GraphOfFirst(sfs, registry, n - 1)
             kept == InternalImports(Extract(sfs[n].file, sfs[n].ext), registry)
         IN  IF kept # <<>> THEN Put(g, RelPath(sfs[n].file), kept) ELSE g

\* the loop over source_files stopped at the ceiling (line 137)
Truncated == BuildReturned /\ file_count > max_files

\* C17: when the scan stops early at the file-count ceiling, the caller can
\* tell from what is returned: the graph of a truncated run is not the graph
\* the same tree gives when no ceiling is hit.
C17_TruncationDetectable ==
    (Truncated /\ \A i \in 1..Len(source_files) :
                      ~ExtractRaises(source_files[i].file, source_files[i].ext)) =>
        graph # GraphOfFirst(source_files, internal_modules, Len(source_files))

\* the source files the resolve loop has been through
Processed == 1..(IF file_count > max_files THEN max_files ELSE file_count)

\* C18: an import extractor never raises on a file that cannot be read or
\* parsed: it returns an empty list (the file gets no graph entry) and
\* build_dependency_graph goes on with the remaining files.
C18_ExtractorNeverRaises ==
    /\ pc # "raised"
    /\ \A i \in Processed :
           source_files[i].file.state # "ok" => ~HasKey(graph, RelPath(source_files[i].file))
    /\ BuildReturned => file_count >= Min(Len(source_files), max_files)

\* the directories of the walked tree that lead to a recognized source file
SourceDirs ==
    UNION {{SubSeq(source_files[i].file.dir, 1, k) : k \in 1..Len(source_files[i].file.dir)}
              : i \in 1..Len(source_files)}

\* C19: the registry holds the base name of every recognized source file and
\* the own name of every non-root directory of the walked tree ('sub' for
\* pkg/sub), so an import of a nested directory's name is kept as an internal
\* dependency.
C19_RegistryNames ==
    pc \notin {"walk"} =>
        /\ \A i \in 1..Len(source_files) :
               SplitExtRoot(source_files[i].file.name) \in internal_modules
        /\ \A d \in SourceDirs : d[Len(d)] \in internal_modules
        /\ \A i \in Processed :
               LET f == source_files[i].file
               IN  \A r \in Range(Extract(f, source_files[i].ext)) :
                       (\E d \in SourceDirs : r = d[Len(d)]) =>
                           r \in Range(Get(graph, RelPath(f)))

\* C20: every file read applies a byte cap: an import extractor reads at most
\* the configured maximum number of bytes of any file.
C20_ByteCap == read_bytes <= MaxFileSizeBytes

---------------------------------------------------------------------------
(* Claims on the tests check.                                              *)

\* the source files under the root that hold a test declaration
MatchedTestFiles ==
    IF "many:tests" \in facts THEN <<"t1.py", "t2.py", "t3.py", "t4.py", "t5.py", "t6.py">>
    ELSE IF "match:tests" \in facts THEN <<"src/app.py">>
    ELSE <<>>

\* the Finding of the tests check, its evidence given
TestsOutcome(f, ev) ==
    /\ f.rule_name = "tests"
    /\ IF "dir:tests" \in facts \/ MatchedTestFiles # <<>>
       THEN /\ Outcome(f) = <<"info", TRUE>>
            /\ f.evidence = ev
       ELSE /\ Outcome(f) = <<"high", FALSE>>
            /\ f.recommendation # ""

\* C21 as stated: the tests check passes with INFO exactly when a test
\* directory exists in the root or a scanned source file matches a test
\* pattern, the evidence being the directory name when it exists and the
\* matched files otherwise; else it fails with HIGH and a recommendation.
C21_TestsOutcomes ==
    \A i \in FindingsOf("_check_tests") :
        TestsOutcome(findings[i],
            IF "dir:tests" \in facts THEN <<"tests">> ELSE MatchedTestFiles)

\* C21: the tests check passes with INFO exactly when a test directory exists
\* in the root or a scanned source file matches a test pattern, the evidence
\* being the directory name when it exists and the first five matched files
\* otherwise; else it fails with HIGH and a non-empty recommendation.
C21_TestsOutcomesFirstFive ==
    \A i \in FindingsOf("_check_tests") :
        TestsOutcome(findings[i],
            IF "dir:tests" \in facts THEN <<"tests">>
            ELSE SubSeq(MatchedTestFiles, 1, Min(5, Len(MatchedTestFiles))))

\* six files match and no test directory exists
C21_Witness ==
    /\ RulesReturned /\ call = "gap_analyzer_agent"
    /\ "many:tests" \in facts /\ "dir:tests" \notin facts
    /\ \E i \in FindingsOf("_check_tests") : Len(findings[i].evidence) = 5

---------------------------------------------------------------------------
(* Claims on the graph build_dependency_graph returns.                     *)

\* the names of s that are in the set, in the order of s
RECURSIVE Retained(_, _)
Retained(s, set) ==
    IF s = <<>> THEN <<>>
    ELSE (IF Head(s) \in set THEN <<Head(s)>> ELSE <<>>) \o Retained(Tail(s), set)

\* C22: a file path is a key of the returned graph exactly when the file was
\* processed and one of its extracted import names is in the registry; its
\* list is the extractor's output with the unregistered names removed, in
\* the original order; no key maps to an empty list.
C22_KeysAndLists ==
    BuildReturned =>
        /\ \A i \in 1..Len(source_files) :
               LET f == source_files[i].file
                   imports == Extract(f, source_files[i].ext)
               IN  /\ HasKey(graph, RelPath(f)) <=>
                          (i \in Processed /\ Range(imports) \cap internal_modules # {})
                   /\ HasKey(graph, RelPath(f)) =>
                          Get(graph, RelPath(f)) = Retained(imports, internal_modules)
        /\ \A k \in 1..Len(graph) :
               /\ graph[k].deps # <<>>
               /\ graph[k].key \in ScannedPaths
               /\ \A j \in 1..Len(graph) : graph[j].key = graph[k].key => j = k

\* a processed file with a registered and an unregistered import, and a
\* processed file with none: one key, one name in its list
C22_Witness ==
    /\ BuildReturned
    /\ Len(source_files) = 2 /\ file_count = 2 /\ Len(graph) = 1
    /\ \E i \in 1..2 :
           /\ Len(Extract(source_files[i].file, source_files[i].ext)) = 2
           /\ Len(Get(graph, RelPath(source_files[i].file))) = 1

\* the names the processed files register: their base names and the names of
\* their packages
ProcessedNames ==
    {SplitExtRoot(source_files[i].file.name) : i \in Processed}
        \cup {PackageOf(source_files[i].file) :
                 i \in {j \in Processed : RelDir(source_files[j].file) # <<Dot>>}}

\* C23: when the recognized source files outnumber max_files, the function
\* extracts from exactly the first max_files files and returns without
\* failing, and the graph reflects exactly that subset: no key and no list
\* entry is derived from a file that was not processed.
C23_ProcessedSubsetOnly ==
    (Len(source_files) > max_files /\ pc \notin {"walk", "resolve"}) =>
        /\ pc # "raised"
        /\ Processed = 1..max_files
        /\ \A k \in 1..Len(graph) :
               /\ \E i \in Processed : graph[k].key = RelPath(source_files[i].file)
               /\ \A d \in Range(graph[k].deps) : d \in ProcessedNames

---------------------------------------------------------------------------
(* Claims on the traversal of find_circular_dependencies.                  *)

\* C24: find_circular_dependencies ends with a result on every finite graph,
\* of any depth, and enters each node at most once: a visited node is not
\* explored again, from another node or as a fresh root.
C24_ReturnsEnteringOnce ==
    call = "find_circular_dependencies" =>
        /\ pc # "raised"
        /\ NoRepeat(entered)
        /\ Range(entered) = visited

---------------------------------------------------------------------------
(* A caller that repeats a call of the dependency analysis or of the score *)
(* on the objects it passed the first time.                                *)

PureCalls ==
    {"find_circular_dependencies", "find_high_coupling_modules",
     "_compute_maturity_score"}

\* the value the running call returns
Result ==
    CASE call = "find_circular_dependencies" -> cycles
      [] call = "find_high_coupling_modules" -> high_coupling
      [] OTHER -> score

\* lines 170-173: visited, rec_stack, cycles and path are created by each
\* call of find_circular_dependencies; so are the names of the other two
\* functions (lines 205 and 209; gap_analyzer.py 72-73)
FreshLocalsBug ==
    /\ visited' = visited /\ rec_stack' = {} /\ cycles' = <<>> /\ path' = <<>>
    /\ frames' = <<>> /\ root' = 1 /\ entered' = <<>>
    /\ in_degree' = <<>> /\ src' = 1 /\ high_coupling' = <<>>
    /\ total_weight' = 0 /\ earned_weight' = 0 /\ score' = 0

FreshLocals ==
    /\ visited' = {} /\ rec_stack' = {} /\ cycles' = <<>> /\ path' = <<>>
    /\ frames' = <<>> /\ root' = 1 /\ entered' = <<>>
    /\ in_degree' = <<>> /\ src' = 1 /\ high_coupling' = <<>>
    /\ total_weight' = 0 /\ earned_weight' = 0 /\ score' = 0

\* the caller keeps the result and calls the function again with the same
\* graph, threshold and findings objects, as the first call left them
CallAgain ==
    /\ pc = "done"
    /\ call \in PureCalls
    /\ run = 1
    /\ first' = [graph |-> graph, findings |-> findings, result |-> Result]
    /\ run' = 2
    /\ pc' = CASE call = "find_circular_dependencies" -> "cycles"
               [] call = "find_high_coupling_modules" -> "coupling"
               [] OTHER -> "score"
    /\ FreshLocals
    /\ UNCHANGED <<call, graph, stack_limit, buildVars, threshold, ruleVars>>

InitTwice ==
    \/ InitCycles /\ stack_limit = RecursionLimit
    \/ InitCoupling
    \/ InitScore

NextTwice == Dfs \/ DfsFinish \/ Coupling \/ ComputeScore \/ CallAgain

SpecTwice == InitTwice /\ [][NextTwice]_vars

\* the traversal starts at the first key of the graph and goes on to the
\* first entry of its list that is not the key itself
FollowsStoredOrder ==
    (call = "find_circular_dependencies" /\ entered # <<>>) =>
        /\ entered[1] = graph[1].key
        /\ (Len(entered) >= 2 /\ graph[1].deps # <<>>
                /\ graph[1].deps[1] # graph[1].key)
               => entered[2] = graph[1].deps[1]

C26_PathIsTheStack ==
    call = "find_circular_dependencies" =>
        /\ NoRepeat(path)
        /\ rec_stack = Range(path)
        /\ rec_stack \subseteq visited
        /\ pc = "done" => (path = <<>> /\ rec_stack = {})

C26_Witness ==
    /\ call = "find_circular_dependencies"
    /\ pc = "done"
    /\ cycles # <<>>
    /\ \E k \in 1..Len(cycles) : Len(cycles[k]) >= 4

\* no dependency list of the graph names a node twice
ListsWithoutRepeats == \A k \in 1..Len(graph) : NoRepeat(graph[k].deps)

\* the edge that closed a recorded cycle: its last two entries
ClosingEdge(c) == <<c[Len(c) - 1], c[Len(c)]>>

\* C27: when no dependency list names the same node twice, no two recorded
\* sequences are equal or rotations of one another, and each comes from an
\* edge of its own, whatever the order of the keys.
C27_NoRotatedRepeats ==
    (call = "find_circular_dependencies" /\ ListsWithoutRepeats) =>
        \A i, j \in 1..Len(cycles) :
            i # j =>
                /\ ~IsRotation(Front(cycles[i]), Front(cycles[j]))
                /\ ClosingEdge(cycles[i]) # ClosingEdge(cycles[j])

C27_Witness ==
    /\ CyclesReturned
    /\ ListsWithoutRepeats
    /\ \E i, j \in 1..Len(cycles) :
           /\ i # j
           /\ Len(cycles[i]) = Len(cycles[j])
           /\ Range(cycles[i]) \cap Range(cycles[j]) # {}

---------------------------------------------------------------------------
(* The pipeline on a tree whose source files are of one family: Python and *)
(* Java/Kotlin files, or JavaScript/TypeScript files.                      *)

\* the recognized source files of the tree are Python or Java/Kotlin files
PythonJavaOnly(t) ==
    \A i \in 1..Len(t) : KindOf(t[i].name) \in {"python", "java", "none"}

ScriptOnly(t) ==
    \A i \in 1..Len(t) : KindOf(t[i].name) \in {"js", "none"}

InitFamily == Init /\ (PythonJavaOnly(tree) \/ ScriptOnly(tree))

NextFamily == Build \/ Dfs \/ DfsFinish \/ Coupling

SpecFamily == InitFamily /\ [][NextFamily]_vars

\* build_dependency_graph has returned `graph`
GraphReturned == call = "analyse_dependencies" /\ pc \in {"cycles", "coupling", "done"}

\* C28: in the graph built for a tree whose recognized source files are
\* Python or Java/Kotlin files no dependency-list entry is a key (a key ends
\* in an extension, an entry holds no dot), so find_circular_dependencies
\* returns an empty list on it, whatever the files import.
C28_NoEntryIsAKey ==
    (GraphReturned /\ PythonJavaOnly(tree)) =>
        /\ \A k \in 1..Len(graph) :
               /\ Dot \in Range(graph[k].key)
               /\ \A d \in Range(graph[k].deps) : Dot \notin Range(d) /\ ~HasKey(graph, d)
        /\ cycles = <<>>

C28_Witness ==
    /\ call = "analyse_dependencies" /\ pc = "done"
    /\ PythonJavaOnly(tree)
    /\ graph = <<[key |-> <<"a", Dot, "py">>, deps |-> << <<"b">> >>],
                 [key |-> <<"b", Dot, "py">>, deps |-> << <<"a">> >>]>>
    /\ cycles = <<>>

---------------------------------------------------------------------------
(* Claims on the Findings of the built-in rules and their weights.         *)

\* lines 443-464: the rules of the three built-in lists
BuiltIn == Range(GENERAL_RULES) \cup Range(FASTAPI_RULES) \cup Range(EXPRESS_RULES)

\* C29: every Finding that evaluate_rules makes for a built-in rule, returned
\* by the check or made for a check that raised, has passed true exactly when
\* its severity is INFO; a passing one weighs 2 in the maturity score and a
\* failing one at least 5.
C29_PassedIffInfo ==
    (call \in {"evaluate_rules", "gap_analyzer_agent"} /\ Range(rules) \subseteq BuiltIn) =>
        \A i \in 1..Len(findings) :
            /\ findings[i].passed <=> findings[i].severity = "info"
            /\ findings[i].passed => Weight(findings[i].severity) = 2
            /\ ~findings[i].passed => Weight(findings[i].severity) >= 5

C29_Witness ==
    /\ RulesReturned
    /\ call = "gap_analyzer_agent"
    /\ Len(rules) > Len(GENERAL_RULES)
    /\ \E i \in 1..Len(findings) : findings[i].passed
    /\ \E i \in 1..Len(findings) :
           findings[i].description[1] = "Rule evaluation failed: "
    /\ \E i \in 1..Len(findings) :
           ~findings[i].passed /\ findings[i].severity = "low"

\* the list with its i-th Finding as a built-in check returns it once its
\* rule is satisfied: passed, with severity INFO
Satisfy(fs, i) == [fs EXCEPT ![i].passed = TRUE, ![i].severity = "info"]

\* C30: when one Finding of the list goes from failed with a severity other
\* than INFO to passed with severity INFO, all else unchanged, the maturity
\* score is not lower than before, although the total weight is another.
C30_SatisfiedRuleNeverLowers ==
    ScoreReturned =>
        \A i \in 1..Len(findings) :
            (~findings[i].passed /\ findings[i].severity # "info") =>
                /\ MaturityScore(Satisfy(findings, i)) >= score
                /\ TotalWeight(Satisfy(findings, i)) < TotalWeight(findings)

\* a failed CRITICAL Finding next to a passed one: the score goes up while
\* the total weight goes down
C30_Witness ==
    /\ ScoreReturned /\ call = "_compute_maturity_score"
    /\ Len(findings) >= 2
    /\ \E i \in 1..Len(findings) :
           /\ ~findings[i].passed /\ findings[i].severity = "critical"
           /\ score > 0
           /\ MaturityScore(Satisfy(findings, i)) > score
           /\ TotalWeight(Satisfy(findings, i)) = TotalWeight(findings) - 18

====
